---------------------------- MODULE Spec2Model ----------------------------
(***************************************************************************)
(* Ordered predicate dispatch of custom_switch.hpp: Case<T> pairs a        *)
(* predicate with an action, Switch<T> holds the dispatch value, the       *)
(* vector of cases and the optional default action, and evaluate() runs    *)
(* the action of the first case whose predicate holds.                     *)
(*                                                                         *)
(* evaluate() is modelled call by call: every invocation of a predicate,   *)
(* of a case action and of the default action is one step, so that the     *)
(* order of the calls and the effect of an exception leaving one of them   *)
(* are visible.  The closures are std::function objects supplied by the    *)
(* client: what a predicate answers is fixed by its text (PredHolds),      *)
(* whether a call throws is the client's choice at each call.              *)
(***************************************************************************)
EXTENDS Integers, Sequences, FiniteSets

VARIABLES
    value_,          \* Switch::value_
    cases_,          \* Switch::cases_, a sequence of Case records
    default_action_, \* Switch::default_action_, Nothing or an action
    pc,              \* position inside evaluate(): idle, loop, action, after
    c,               \* the range-for position in cases_ (1-based)
    executed,        \* the local `executed` of evaluate()
    outcome,         \* how the last evaluate() left: none, returned, threw
    trace,           \* the closure calls of the current/last evaluate(), in order
    args,            \* the values the predicates of that evaluate() received
    added,           \* history: the (predicate, action) pairs passed to add_case
    defaultCalls,    \* history: the actions passed to add_default
    prev             \* <<trace>> of the last evaluate() that returned on this
                     \* same population of the Switch, <<>> when there is none

vars == <<value_, cases_, default_action_, pc, c, executed, outcome, trace,
          args, added, defaultCalls, prev>>

config == <<value_, cases_, default_action_>>

---------------------------------------------------------------------------
\* Bounds of the model.

\* The most add_case calls on one Switch.
MaxCases == 2

\* The most add_default calls on one Switch.
MaxDefaultCalls == 2

---------------------------------------------------------------------------
\* The client's closures.

\* The integer comparisons of the demonstration programs.
RangeLow == 0

RangeHigh == 100

TenValue == 10

\* The bounds of the test data of time_test.cpp.
DistLow == -50

DistHigh == 150

\* std::nullopt in default_action_.
Nothing == "nullopt"

\* The predicate lambdas a CASE(...) of the demonstration programs builds.
Predicates == {"range", "gt100", "lt0", "eq10"}

\* The action lambdas of the generic client.
Actions == {"A1", "A2"}

\* The dispatch values of the generic client.
Values == {-10, 10, 50, 150}

\* The dispatch values time_test.cpp draws.
ChainValues == DistLow..DistHigh

\* Fault variant of PredHolds: the range test excludes its upper end.
PredHolds_Exclusive(p, val) ==
    CASE p = "range" -> val < RangeHigh /\ val >= RangeLow
      [] p = "gt100" -> val > RangeHigh
      [] p = "lt0"   -> val < RangeLow
      [] p = "eq10"  -> val = TenValue

\* What the predicate lambda answers for val.
PredHolds(p, val) ==
    CASE p = "range" -> val <= RangeHigh /\ val >= RangeLow
      [] p = "gt100" -> val > RangeHigh
      [] p = "lt0"   -> val < RangeLow
      [] p = "eq10"  -> val = TenValue

\* The branch the native if / else-if chain of time_test.cpp takes.
IfElseChain(value) ==
    IF value <= RangeHigh /\ value >= RangeLow THEN "A1"
    ELSE IF value > RangeHigh THEN "A2"
    ELSE IF value < RangeLow THEN "A3"
    ELSE "A4"

\* The three CASE blocks of the SWITCH of time_test.cpp, in textual order.
ChainCases ==
    << [predicate_ |-> "range", action_ |-> "A1"],
       [predicate_ |-> "gt100", action_ |-> "A2"],
       [predicate_ |-> "lt0",   action_ |-> "A3"] >>

\* The DEFAULT block of the SWITCH of time_test.cpp.
ChainDefault == "A4"

---------------------------------------------------------------------------
\* The record of one closure call.

PredCall(i, raised) ==
    [op |-> "pred", idx |-> i, id |-> cases_[i].predicate_, raised |-> raised]

ActCall(i, raised) ==
    [op |-> "act", idx |-> i, id |-> cases_[i].action_, raised |-> raised]

DefaultCall(raised) ==
    [op |-> "default", idx |-> 0, id |-> default_action_, raised |-> raised]

---------------------------------------------------------------------------
\* Construction and registration.

\* Switch(T value): the value is stored, no case, no default.
Init ==
    /\ value_ \in Values
    /\ cases_ = <<>>
    /\ default_action_ = Nothing
    /\ pc = "idle"
    /\ c = 1
    /\ executed = FALSE
    /\ outcome = "none"
    /\ trace = <<>>
    /\ args = <<>>
    /\ added = <<>>
    /\ defaultCalls = <<>>
    /\ prev = <<>>

\* A registration starts a new population: what was observed of earlier
\* evaluations no longer describes this Switch.
Forget ==
    /\ outcome' = "none"
    /\ trace' = <<>>
    /\ args' = <<>>
    /\ prev' = <<>>

\* Fault variant of EmplaceBack: a pair already registered is not added again.
EmplaceBack_Dedup(cs, p, a) ==
    IF \E i \in 1..Len(cs) : cs[i] = [predicate_ |-> p, action_ |-> a]
    THEN cs
    ELSE Append(cs, [predicate_ |-> p, action_ |-> a])

\* The sequence add_case leaves in cases_.
EmplaceBack(cs, p, a) == Append(cs, [predicate_ |-> p, action_ |-> a])

\* Switch::add_case(predicate, action).
AddCase(p, a) ==
    /\ pc = "idle"
    /\ cases_' = EmplaceBack(cases_, p, a)
    /\ added' = Append(added, [predicate_ |-> p, action_ |-> a])
    /\ Forget
    /\ UNCHANGED <<value_, default_action_, pc, c, executed, defaultCalls>>

\* Fault variant of AssignDefault: a default already set is kept.
AssignDefault_KeepFirst(old, a) == IF old = Nothing THEN a ELSE old

\* The optional add_default leaves in default_action_.
AssignDefault(old, a) == a

\* Switch::add_default(action).
AddDefault(a) ==
    /\ pc = "idle"
    /\ default_action_' = AssignDefault(default_action_, a)
    /\ defaultCalls' = Append(defaultCalls, a)
    /\ Forget
    /\ UNCHANGED <<value_, cases_, pc, c, executed, added>>

---------------------------------------------------------------------------
\* Switch::evaluate(), call by call.

\* Entry: bool executed = false; the range-for starts at the first case.
Evaluate ==
    /\ pc = "idle"
    /\ pc' = "loop"
    /\ c' = 1
    /\ executed' = FALSE
    /\ outcome' = "none"
    /\ trace' = <<>>
    /\ args' = <<>>
    /\ prev' = IF outcome = "returned" THEN <<trace>> ELSE prev
    /\ UNCHANGED <<value_, cases_, default_action_, added, defaultCalls>>

\* An exception leaves evaluate(): nothing catches it.
Propagate ==
    /\ pc' = "idle"
    /\ outcome' = "threw"

\* Fault variant of ForLoop: an exception of a predicate is caught and taken
\* for the answer false.
ForLoop_Swallows(throws) ==
    /\ pc = "loop"
    /\ IF c > Len(cases_)
       THEN /\ ~throws
            /\ pc' = "after"
            /\ UNCHANGED <<c, outcome, trace, args>>
       ELSE /\ trace' = Append(trace, PredCall(c, throws))
            /\ args' = Append(args, value_)
            /\ IF ~throws /\ PredHolds(cases_[c].predicate_, value_)
               THEN pc' = "action" /\ UNCHANGED <<c, outcome>>
               ELSE pc' = "loop" /\ c' = c + 1 /\ UNCHANGED outcome
    /\ UNCHANGED <<value_, cases_, default_action_, executed, added,
                   defaultCalls, prev>>

\* Fault variant of ForLoop: the test of Case::evaluate is negated.
ForLoop_Negated(throws) ==
    /\ pc = "loop"
    /\ IF c > Len(cases_)
       THEN /\ ~throws
            /\ pc' = "after"
            /\ UNCHANGED <<c, outcome, trace, args>>
       ELSE /\ trace' = Append(trace, PredCall(c, throws))
            /\ args' = Append(args, value_)
            /\ IF throws
               THEN Propagate /\ UNCHANGED c
               ELSE IF ~PredHolds(cases_[c].predicate_, value_)
                    THEN pc' = "action" /\ UNCHANGED <<c, outcome>>
                    ELSE pc' = "loop" /\ c' = c + 1 /\ UNCHANGED outcome
    /\ UNCHANGED <<value_, cases_, default_action_, executed, added,
                   defaultCalls, prev>>

\* The loop head and, for a case that is left, c.evaluate(value_) up to the
\* answer of predicate_(value): false goes on to the next case, true goes on
\* to action_(), an exception leaves evaluate().
ForLoop(throws) ==
    /\ pc = "loop"
    /\ IF c > Len(cases_)
       THEN /\ ~throws
            /\ pc' = "after"
            /\ UNCHANGED <<c, outcome, trace, args>>
       ELSE /\ trace' = Append(trace, PredCall(c, throws))
            /\ args' = Append(args, value_)
            /\ IF throws
               THEN Propagate /\ UNCHANGED c
               ELSE IF PredHolds(cases_[c].predicate_, value_)
                    THEN pc' = "action" /\ UNCHANGED <<c, outcome>>
                    ELSE pc' = "loop" /\ c' = c + 1 /\ UNCHANGED outcome
    /\ UNCHANGED <<value_, cases_, default_action_, executed, added,
                   defaultCalls, prev>>

\* Fault variant of CaseAction: the break is missing, the scan goes on.
CaseAction_NoBreak(throws) ==
    /\ pc = "action"
    /\ trace' = Append(trace, ActCall(c, throws))
    /\ IF throws
       THEN Propagate /\ UNCHANGED <<c, executed>>
       ELSE pc' = "loop" /\ c' = c + 1 /\ executed' = TRUE /\ UNCHANGED outcome
    /\ UNCHANGED <<value_, cases_, default_action_, args, added,
                   defaultCalls, prev>>

\* Fault variant of CaseAction: Case::evaluate returns false after its action.
CaseAction_ReturnsFalse(throws) ==
    /\ pc = "action"
    /\ trace' = Append(trace, ActCall(c, throws))
    /\ IF throws
       THEN Propagate /\ UNCHANGED c
       ELSE pc' = "loop" /\ c' = c + 1 /\ UNCHANGED outcome
    /\ UNCHANGED <<value_, cases_, default_action_, executed, args, added,
                   defaultCalls, prev>>

\* Fault variant of CaseAction: the case that ran is erased from cases_.
CaseAction_Consumes(throws) ==
    /\ pc = "action"
    /\ trace' = Append(trace, ActCall(c, throws))
    /\ cases_' = SubSeq(cases_, 1, c - 1) \o SubSeq(cases_, c + 1, Len(cases_))
    /\ IF throws
       THEN Propagate /\ UNCHANGED executed
       ELSE pc' = "after" /\ executed' = TRUE /\ UNCHANGED outcome
    /\ UNCHANGED <<value_, default_action_, c, args, added,
                   defaultCalls, prev>>

\* action_() of the case whose predicate held, then return true, then
\* executed = true; break.
CaseAction(throws) ==
    /\ pc = "action"
    /\ trace' = Append(trace, ActCall(c, throws))
    /\ IF throws
       THEN Propagate /\ UNCHANGED executed
       ELSE pc' = "after" /\ executed' = TRUE /\ UNCHANGED outcome
    /\ UNCHANGED <<value_, cases_, default_action_, c, args, added,
                   defaultCalls, prev>>

\* Fault variant of AfterLoop: the default runs whether or not a case ran.
AfterLoop_IgnoresExecuted(throws) ==
    /\ pc = "after"
    /\ IF default_action_ # Nothing
       THEN /\ trace' = Append(trace, DefaultCall(throws))
            /\ IF throws
               THEN Propagate
               ELSE pc' = "idle" /\ outcome' = "returned"
       ELSE /\ ~throws
            /\ pc' = "idle"
            /\ outcome' = "returned"
            /\ UNCHANGED trace
    /\ UNCHANGED <<value_, cases_, default_action_, c, executed, args, added,
                   defaultCalls, prev>>

\* Fault variant of AfterLoop: the optional is called without testing that
\* it holds an action.
AfterLoop_Unchecked(throws) ==
    /\ pc = "after"
    /\ IF ~executed
       THEN /\ trace' = Append(trace, DefaultCall(throws))
            /\ IF throws
               THEN Propagate
               ELSE pc' = "idle" /\ outcome' = "returned"
       ELSE /\ ~throws
            /\ pc' = "idle"
            /\ outcome' = "returned"
            /\ UNCHANGED trace
    /\ UNCHANGED <<value_, cases_, default_action_, c, executed, args, added,
                   defaultCalls, prev>>

\* if (!executed && default_action_) (*default_action_)(); then return.
AfterLoop(throws) ==
    /\ pc = "after"
    /\ IF ~executed /\ default_action_ # Nothing
       THEN /\ trace' = Append(trace, DefaultCall(throws))
            /\ IF throws
               THEN Propagate
               ELSE pc' = "idle" /\ outcome' = "returned"
       ELSE /\ ~throws
            /\ pc' = "idle"
            /\ outcome' = "returned"
            /\ UNCHANGED trace
    /\ UNCHANGED <<value_, cases_, default_action_, c, executed, args, added,
                   defaultCalls, prev>>

---------------------------------------------------------------------------
\* The generic client: any registrations, any number of evaluations.

Register ==
    \E p \in Predicates, a \in Actions :
        Len(added) < MaxCases /\ AddCase(p, a)

RegisterDefault ==
    \E a \in Actions :
        Len(defaultCalls) < MaxDefaultCalls /\ AddDefault(a)

Scan == \E throws \in BOOLEAN : ForLoop(throws)

RunAction == \E throws \in BOOLEAN : CaseAction(throws)

Finish == \E throws \in BOOLEAN : AfterLoop(throws)

Next ==
    \/ Register
    \/ RegisterDefault
    \/ Evaluate
    \/ Scan
    \/ RunAction
    \/ Finish

Spec == Init /\ [][Next]_vars

---------------------------------------------------------------------------
\* The client of time_test.cpp: SWITCH(value) with its three CASE blocks
\* and its DEFAULT in textual order, then END_SWITCH; the lambdas are
\* integer comparisons and do_work, which do not throw.

InitChain ==
    /\ value_ \in ChainValues
    /\ cases_ = <<>>
    /\ default_action_ = Nothing
    /\ pc = "idle"
    /\ c = 1
    /\ executed = FALSE
    /\ outcome = "none"
    /\ trace = <<>>
    /\ args = <<>>
    /\ added = <<>>
    /\ defaultCalls = <<>>
    /\ prev = <<>>

ChainCase ==
    /\ Len(added) < Len(ChainCases)
    /\ AddCase(ChainCases[Len(added) + 1].predicate_,
               ChainCases[Len(added) + 1].action_)

ChainAddDefault ==
    /\ Len(added) = Len(ChainCases)
    /\ defaultCalls = <<>>
    /\ AddDefault(ChainDefault)

ChainEndSwitch ==
    /\ defaultCalls # <<>>
    /\ outcome = "none"
    /\ Evaluate

ChainScan == ForLoop(FALSE)

ChainRunAction == CaseAction(FALSE)

ChainFinish == AfterLoop(FALSE)

NextChain ==
    \/ ChainCase
    \/ ChainAddDefault
    \/ ChainEndSwitch
    \/ ChainScan
    \/ ChainRunAction
    \/ ChainFinish

SpecChain == InitChain /\ [][NextChain]_vars

---------------------------------------------------------------------------
\* What the properties below read off a state.

\* Whether the predicate of case i holds for the stored value.
Matches(i) == PredHolds(cases_[i].predicate_, value_)

\* The cases whose predicate holds for the stored value.
MatchSet == {i \in 1..Len(cases_) : Matches(i)}

\* The earliest-registered matching case.
FirstMatch == CHOOSE i \in MatchSet : \A j \in MatchSet : i <= j

\* The positions of the trace that are calls of kind op.
Calls(op) == {j \in 1..Len(trace) : trace[j].op = op}

\* The invocation counter of the predicate of case i.
PredCount(i) ==
    Cardinality({j \in Calls("pred") : trace[j].idx = i})

\* The predicate calls of the trace that returned true.
TrueAnswers ==
    {j \in Calls("pred") :
        ~trace[j].raised /\ PredHolds(trace[j].id, value_)}

\* The actions (case actions and default) that ran, in order.
Ran == SelectSeq(trace, LAMBDA e : e.op # "pred")

\* The last add_default argument.
LastDefault == defaultCalls[Len(defaultCalls)]

---------------------------------------------------------------------------
\* C1 - First-match wins: when two or more registered predicates hold for
\* the value, the only case action evaluate() ever runs is the action of the
\* earliest-registered matching case, it runs at most once, and an
\* evaluate() that returned has run it exactly once.
FirstMatchWins ==
    Cardinality(MatchSet) >= 2 =>
        /\ \A j \in Calls("act") :
              /\ trace[j].idx = FirstMatch
              /\ trace[j].id = cases_[FirstMatch].action_
        /\ Cardinality(Calls("act")) <= 1
        /\ outcome = "returned" => Cardinality(Calls("act")) = 1

\* Two different predicates both hold, the cases carry different actions,
\* and evaluate() has returned after running one of them.
FirstMatchWinsWitness ==
    /\ outcome = "returned"
    /\ Len(cases_) = 2
    /\ MatchSet = {1, 2}
    /\ cases_[1].predicate_ # cases_[2].predicate_
    /\ cases_[1].action_ # cases_[2].action_
    /\ Calls("act") # {}

\* C2 - Short-circuit: once a predicate has returned true in an evaluate(),
\* the invocation counter of the predicate of every later-registered case
\* is 0, and stays 0 for the rest of that evaluate().
ShortCircuit ==
    \A j \in TrueAnswers :
        \A i \in (trace[j].idx + 1)..Len(cases_) : PredCount(i) = 0

\* The first case matched, the second would match too, evaluate() has
\* returned and the second predicate was never invoked.
ShortCircuitWitness ==
    /\ outcome = "returned"
    /\ Len(cases_) = 2
    /\ MatchSet = {1, 2}
    /\ TrueAnswers # {}
    /\ PredCount(2) = 0

\* C3 - Fallback only when unmatched: the default action runs at most once;
\* it runs only when it is registered, every predicate was invoked and none
\* returned true; and an evaluate() that returned with a default registered
\* has run it exactly when no predicate returned true.
FallbackIffUnmatched ==
    /\ Cardinality(Calls("default")) <= 1
    /\ Calls("default") # {} =>
          /\ default_action_ # Nothing
          /\ TrueAnswers = {}
          /\ MatchSet = {}
          /\ \A i \in 1..Len(cases_) : PredCount(i) = 1
    /\ (outcome = "returned" /\ default_action_ # Nothing) =>
          (Calls("default") # {} <=> TrueAnswers = {})

\* No case of a populated Switch matched and the default has run.
FallbackIffUnmatchedWitness ==
    /\ outcome = "returned"
    /\ Len(cases_) = 2
    /\ Cardinality(Calls("default")) = 1
    /\ Calls("act") = {}

\* C4 - Error propagation: a call that raised is the last call of its
\* evaluate(), which has left with the error; no predicate or action of a
\* later case and no default action ran; evaluate() leaves with an error
\* only when a closure raised one.
ErrorPropagation ==
    /\ \A j \in 1..Len(trace) :
          trace[j].raised =>
              /\ j = Len(trace)
              /\ outcome = "threw"
              /\ pc = "idle"
              /\ trace[j].op # "default" =>
                    /\ Calls("default") = {}
                    /\ \A k \in 1..Len(trace) : trace[k].idx <= trace[j].idx
                    /\ \A i \in (trace[j].idx + 1)..Len(cases_) :
                          PredCount(i) = 0
    /\ outcome = "threw" => (trace # <<>> /\ trace[Len(trace)].raised)

\* The action of the matched first case raised, with a second case and a
\* default registered.
ErrorPropagationWitness ==
    /\ outcome = "threw"
    /\ Len(cases_) = 2
    /\ default_action_ # Nothing
    /\ trace[Len(trace)].op = "act"
    /\ trace[Len(trace)].idx = 1

\* C5 - No match, no fallback: with no default ever set and no predicate
\* holding for the value, evaluate() runs no action; it leaves with an error
\* only if a predicate raised one; and after the scan it returns normally,
\* having called nothing more.
SilentNoMatchState ==
    (defaultCalls = <<>> /\ MatchSet = {}) =>
        /\ Calls("act") = {}
        /\ Calls("default") = {}
        /\ outcome = "threw" =>
              (trace[Len(trace)].op = "pred" /\ trace[Len(trace)].raised)

SilentNoMatchStep ==
    (defaultCalls = <<>> /\ MatchSet = {} /\ pc = "after") =>
        (pc' = "idle" /\ outcome' = "returned" /\ trace' = trace)

SilentNoMatch == []SilentNoMatchState /\ [][SilentNoMatchStep]_vars

\* Two cases, neither matching, no default: evaluate() has returned after
\* invoking both predicates and nothing else.
SilentNoMatchWitness ==
    /\ outcome = "returned"
    /\ defaultCalls = <<>>
    /\ Len(cases_) = 2
    /\ MatchSet = {}
    /\ Len(trace) = 2

\* C6 - Last registration wins: the Switch holds no default before the
\* first add_default and the argument of the most recent add_default after
\* it, however the calls interleave with add_case; a default action that
\* runs is that last one.
LastDefaultWins ==
    /\ default_action_ =
          (IF defaultCalls = <<>> THEN Nothing ELSE LastDefault)
    /\ \A j \in Calls("default") : trace[j].id = LastDefault

\* Two different defaults were registered around a case, nothing matched
\* and the default action has run.
LastDefaultWinsWitness ==
    /\ outcome = "returned"
    /\ Len(defaultCalls) = 2
    /\ defaultCalls[1] # defaultCalls[2]
    /\ cases_ # <<>>
    /\ Calls("default") # {}

\* C7 - Equivalence with the if / else-if chain: the SWITCH of
\* time_test.cpp runs exactly one action, the one the native chain runs for
\* the same value (A1 on 0..100, A2 above 100, A3 below 0), never the
\* default, and never leaves with an error.
ChainEquivalence ==
    /\ outcome # "threw"
    /\ Calls("default") = {}
    /\ outcome = "returned" =>
          /\ Len(Ran) = 1
          /\ Ran[1].id = IfElseChain(value_)
          /\ (RangeLow <= value_ /\ value_ <= RangeHigh) => Ran[1].id = "A1"
          /\ value_ > RangeHigh => Ran[1].id = "A2"
          /\ value_ < RangeLow => Ran[1].id = "A3"

\* The SWITCH of time_test.cpp has returned for the boundary value 100.
ChainEquivalenceWitness ==
    /\ outcome = "returned"
    /\ value_ = RangeHigh
    /\ cases_ = ChainCases
    /\ default_action_ = ChainDefault
    /\ Len(Ran) = 1

\* C8 - Insertion order: the case sequence is the list of pairs passed to
\* add_case, in call order, one entry per call; add_case appends one entry
\* and leaves the value, the earlier entries and the default alone;
\* add_default leaves the case sequence and the value alone.
InsertionOrderStep ==
    /\ added' # added =>
          /\ Len(cases_') = Len(cases_) + 1
          /\ SubSeq(cases_', 1, Len(cases_)) = cases_
          /\ cases_'[Len(cases_')] = added'[Len(added')]
          /\ value_' = value_
          /\ default_action_' = default_action_
    /\ defaultCalls' # defaultCalls =>
          /\ cases_' = cases_
          /\ value_' = value_

InsertionOrder == [](cases_ = added) /\ [][InsertionOrderStep]_vars

\* The same pair was registered twice, with a default.
InsertionOrderWitness ==
    /\ Len(added) = 2
    /\ added[1] = added[2]
    /\ Len(cases_) = 2
    /\ defaultCalls # <<>>

\* The calls of an error-free evaluate(): the predicates up to the first
\* match in registration order and then its action, or every predicate and
\* then the default if one is set.
ExpectedTrace ==
    LET n == Len(cases_)
        k == IF MatchSet = {} THEN n ELSE FirstMatch
        scan == [i \in 1..k |-> PredCall(i, FALSE)]
    IN  IF MatchSet # {} THEN Append(scan, ActCall(k, FALSE))
        ELSE IF default_action_ # Nothing THEN Append(scan, DefaultCall(FALSE))
        ELSE scan

\* C9 - Event order: the j-th predicate call of an evaluate() is the call of
\* the predicate of case j; a case action is called only right after its own
\* predicate returned true; and an evaluate() that returned has made exactly
\* the calls of ExpectedTrace.
EventOrder ==
    /\ \A j \in Calls("pred") : trace[j].idx = j
    /\ \A j \in Calls("act") :
          /\ j > 1
          /\ trace[j - 1].op = "pred"
          /\ trace[j - 1].idx = trace[j].idx
          /\ j - 1 \in TrueAnswers
    /\ outcome = "returned" => trace = ExpectedTrace

\* The first case did not match, the second did: predicate 1, predicate 2,
\* action 2.
EventOrderWitness ==
    /\ outcome = "returned"
    /\ Len(cases_) = 2
    /\ MatchSet = {2}
    /\ Len(trace) = 3
    /\ trace[3].op = "act"

\* C10 - Evaluate is read-only: no step of evaluate() changes the stored
\* value, the case sequence or the default; every predicate of an evaluate()
\* received the stored value; and an evaluate() that returns on a Switch on
\* which an earlier one returned has made the same calls.
ReadOnlyState ==
    /\ \A j \in 1..Len(args) : args[j] = value_
    /\ Len(args) = Cardinality(Calls("pred"))
    /\ (outcome = "returned" /\ prev # <<>>) => trace = prev[1]

ReadOnlyStep ==
    (pc # "idle" \/ pc' # "idle") => config' = config

EvaluateReadOnly == []ReadOnlyState /\ [][ReadOnlyStep]_vars

\* A second evaluate() has returned on a Switch whose first one ran a case
\* action.
EvaluateReadOnlyWitness ==
    /\ outcome = "returned"
    /\ prev # <<>>
    /\ Calls("act") # {}
    /\ Len(cases_) = 2

===========================================================================
